---- MODULE Spec2Model ----
(***************************************************************************)
(* Model of the DataStore controller of kamaji                             *)
(* (controllers/datastore_controller.go) and of the wiring of its trigger  *)
(* channel in main.go.                                                     *)
(*                                                                         *)
(* One worker runs DataStore.Reconcile; the calls it makes on the cluster  *)
(* client (Get, GetContent x3, List, Status().Update) and the sends on     *)
(* TenantControlPlaneTrigger are the steps of the model.  The outcomes of  *)
(* the client calls are chosen by the environment.                         *)
(***************************************************************************)
EXTENDS Integers, Sequences, FiniteSets, TLC

(***************************************************************************)
(* Bounds of the model.                                                    *)
(***************************************************************************)
\* Longest TenantControlPlaneList the List call returns.
MaxList == 3

(***************************************************************************)
(* Strings are sequences of byte values, as Go compares them:              *)
(* "-" is 45, "/" is 47, "a" is 97, "b" is 98.                             *)
(***************************************************************************)
\* Go's < on strings: byte-wise lexicographic, a proper prefix is smaller.
RECURSIVE StrLess(_, _)
StrLess(s, t) ==
    IF t = <<>> THEN FALSE
    ELSE IF s = <<>> THEN TRUE
    ELSE IF Head(s) # Head(t) THEN Head(s) < Head(t)
    ELSE StrLess(Tail(s), Tail(t))

\* Names of the DataStore objects of the cluster: "a" and "b".
DSNames == {<<97>>, <<98>>}

\* conf.GetString("datastore"), the value of DataStore.ResourceName: "a".
ResourceName == <<97>>

\* The TenantControlPlane objects of the cluster, by namespace and name:
\* a/b and a-b/a.  As strings a-b/a < a/b, while by namespace a < a-b.
TCPs ==
    { [ns |-> <<97>>, name |-> <<98>>],
      [ns |-> <<97, 45, 98>>, name |-> <<97>>] }

\* The separator of types.NamespacedName.String().
Slash == 47

\* getNamespacedName(ns, name).String(): "<namespace>/<name>".
NamespacedNameString(ns, name) == ns \o <<Slash>> \o name

\* The results client.List can fill tcpList.Items with.
ListResults == UNION { [1..n -> TCPs] : n \in 0..MaxList }

\* A plausible slip: a loop that stops one item short.
TcpSetsSkipLast(list) ==
    { NamespacedNameString(list[i].ns, list[i].name) : i \in 1..(Len(list) - 1) }

\* tcpSets after the Insert loop over tcpList.Items.
TcpSets(list) ==
    { NamespacedNameString(list[i].ns, list[i].name) : i \in 1..Len(list) }

\* sets.String.List(): the members as a sorted slice.
RECURSIVE StringSetList(_)
StringSetList(S) ==
    IF S = {} THEN <<>>
    ELSE LET m == CHOOSE x \in S : \A y \in S \ {x} : StrLess(x, y)
         IN  <<m>> \o StringSetList(S \ {m})

\* A plausible slip: the identities of the items as listed, neither
\* deduplicated nor sorted.
ComputeUsedByRaw(list) ==
    [i \in 1..Len(list) |-> NamespacedNameString(list[i].ns, list[i].name)]

\* ds.Status.UsedBy as computed from the list result.
ComputeUsedBy(list) == StringSetList(TcpSets(list))

(***************************************************************************)
(* Errors and results.                                                     *)
(***************************************************************************)
Materials == {"CA", "ClientCertificate", "ClientKey"}

\* The message of errors.Wrap for each material.
WrapMessage(m) ==
    CASE m = "CA" -> "invalid Certificate Authority data"
      [] m = "ClientCertificate" -> "invalid Client Certificate data"
      [] m = "ClientKey" -> "invalid Client Certificate data"

NilError == [kind |-> "nil", msg |-> ""]
GetError == [kind |-> "get", msg |-> ""]
ListError == [kind |-> "list", msg |-> ""]
ConflictError == [kind |-> "conflict", msg |-> ""]
UpdateError == [kind |-> "update", msg |-> ""]
\* errors.Wrap(err, message) of a GetContent error.
Wrap(m) == [kind |-> "wrapped", msg |-> WrapMessage(m)]

\* A plausible slip: reconcile.Result{Requeue: true}.
RequeueResult == [requeue |-> TRUE]

\* reconcile.Result{}: no requeue requested.
EmptyResult == [requeue |-> FALSE]

\* Reconcile has not returned (yet).
NotReturned == [result |-> EmptyResult, err |-> [kind |-> "pending", msg |-> ""]]

NoName == <<>>

(***************************************************************************)
(* The trigger channel: make(controllers.TenantControlPlaneChannel).       *)
(***************************************************************************)
ChanCap == 0

\* A plausible slip: a channel made with room for one event.
ChanFullBuffered(buf) == Len(buf) > ChanCap + 1

\* A plausible slip: the channel never made (a nil channel): a send on it
\* blocks for ever.
ChanFullNil(buf) == TRUE

\* The events handed to the channel exceed what it buffers: the sender of the
\* last one is blocked.
ChanFull(buf) == Len(buf) > ChanCap

VARIABLES
    queue,         \* requests admitted by the predicate, not yet reconciled
    dropped,       \* the predicate has rejected an event
    pc,            \* position of the worker inside Reconcile
    req,           \* request.NamespacedName.Name of the running/last call
    items,         \* tcpList.Items of the running/last call
    idx,           \* number of completed sends of the notify loop
    ret,           \* what the last call returned: [result, err]
    usedBy,        \* status.usedBy of the DataStore as persisted
    stale,         \* the DataStore was modified since this call's Get
    cancelled,     \* ctx.Done() is closed
    chanBuf,       \* events handed to TenantControlPlaneTrigger, not yet received
    received,      \* events the consumer received during the running/last call
    sent,          \* events whose send completed during the running/last call
    calls,         \* client calls of the running/last call and their outcomes
    usedByAtStart, \* persisted status.usedBy when the call started
    prev,          \* summary of the call before the running/last one
    snapshot       \* the objects of the list result whose index is persisted

vars == <<queue, dropped, pc, req, items, idx, ret, usedBy, stale, cancelled,
          chanBuf, received, sent, calls, usedByAtStart, prev, snapshot>>

\* The parts of the state by who writes them.
watch == <<queue, dropped>>
local == <<req, items, idx>>
channel == <<chanBuf, received, sent>>
history == <<usedByAtStart, prev>>

\* No status write has succeeded yet.
NoSnapshot == [taken |-> FALSE, tcps |-> {}]

NoPrev == [ok |-> FALSE, items |-> <<>>, usedBy |-> <<>>, sent |-> <<>>]

Init ==
    /\ queue = {}
    /\ dropped = FALSE
    /\ pc = "idle"
    /\ req = NoName
    /\ items = <<>>
    /\ idx = 0
    /\ ret = NotReturned
    /\ usedBy = <<>>
    /\ stale = FALSE
    /\ cancelled = FALSE
    /\ chanBuf = <<>>
    /\ received = <<>>
    /\ sent = <<>>
    /\ calls = <<>>
    /\ usedByAtStart = <<>>
    /\ prev = NoPrev
    /\ snapshot = NoSnapshot

(***************************************************************************)
(* SetupWithManager: the predicate and the watch.                          *)
(***************************************************************************)
\* A plausible slip: a predicate that admits every object.
PredicateAll(name) == TRUE

\* predicate.NewPredicateFuncs(func(object) bool { ... })
Predicate(name) == name = ResourceName

\* A create, update or delete event of a DataStore (the predicate looks at
\* the object's name only, whatever the kind of the event): an admitted
\* event enqueues a request for the object, a rejected one is dropped.
WatchEvent ==
    /\ ~cancelled
    /\ \E name \in DSNames :
          IF Predicate(name)
          THEN queue' = queue \cup {name} /\ UNCHANGED dropped
          ELSE dropped' = TRUE /\ UNCHANGED queue
    /\ UNCHANGED <<pc, local, ret, usedBy, stale, cancelled, channel, calls,
                   history, snapshot>>

\* Another writer modifies the DataStore object between the worker's Get
\* and its status update.
Modify ==
    /\ pc \in {"ca", "cert", "key", "list", "update"}
    /\ ~stale
    /\ stale' = TRUE
    /\ UNCHANGED <<watch, pc, local, ret, usedBy, cancelled, channel, calls,
                   history, snapshot>>

\* The framework cancels the context (shutdown).
Cancel ==
    /\ ~cancelled
    /\ cancelled' = TRUE
    /\ UNCHANGED <<watch, pc, local, ret, usedBy, stale, channel, calls,
                   history, snapshot>>

(***************************************************************************)
(* Reconcile.                                                              *)
(***************************************************************************)
Called(op) == \E i \in 1..Len(calls) : calls[i].op = op

Outcome(op) == (CHOOSE c \in {calls[i] : i \in 1..Len(calls)} : c.op = op).out

\* A plausible slip: the notifications placed before the status update.
StepAfterNotifyFirst(at) ==
    CASE at = "get" -> "ca"
      [] at = "ca" -> "cert"
      [] at = "cert" -> "key"
      [] at = "key" -> "list"
      [] at = "list" -> "notify"
      [] at = "notify" -> "update"
      [] at = "update" -> "return"

\* A plausible slip: the client key resolved before the client certificate.
StepAfterKeyFirst(at) ==
    CASE at = "get" -> "ca"
      [] at = "ca" -> "key"
      [] at = "key" -> "cert"
      [] at = "cert" -> "list"
      [] at = "list" -> "update"
      [] at = "update" -> "notify"
      [] at = "notify" -> "return"

\* The order of the statements of Reconcile: where the worker goes when the
\* statement at a position succeeded.
StepAfter(at) ==
    CASE at = "get" -> "ca"
      [] at = "ca" -> "cert"
      [] at = "cert" -> "key"
      [] at = "key" -> "list"
      [] at = "list" -> "update"
      [] at = "update" -> "notify"
      [] at = "notify" -> "return"

\* return reconcile.Result{}, err
Return(err) ==
    /\ pc' = "idle"
    /\ ret' = [result |-> EmptyResult, err |-> err]

\* The statement at a position succeeded: on to the next one, which is the
\* final return when nothing is left.
Proceed(at) ==
    IF StepAfter(at) = "return"
    THEN Return(NilError)
    ELSE pc' = StepAfter(at) /\ UNCHANGED ret

\* The finished call, as the next one will look back at it.
Summary ==
    IF ret.err = NilError /\ Called("update")
    THEN [ok |-> TRUE, items |-> items, usedBy |-> usedBy, sent |-> sent]
    ELSE NoPrev

\* The framework takes a request off the queue and calls Reconcile.
Start ==
    /\ pc = "idle"
    /\ ~cancelled
    /\ \E name \in queue :
          /\ queue' = queue \ {name}
          /\ req' = name
    /\ pc' = "get"
    /\ prev' = Summary
    /\ items' = <<>>
    /\ idx' = 0
    /\ ret' = NotReturned
    /\ stale' = FALSE
    /\ received' = <<>>
    /\ sent' = <<>>
    /\ calls' = <<>>
    /\ usedByAtStart' = usedBy
    /\ UNCHANGED <<dropped, usedBy, cancelled, chanBuf, snapshot>>

\* A plausible slip: every Get error taken for not-found.
GetFailureSwallowed(outcome) == NilError

\* A plausible slip: no IsNotFound check, every Get error is returned.
GetFailureUnchecked(outcome) == GetError

\* if k8serrors.IsNotFound(err) { return nil }; return err
GetFailure(outcome) == IF outcome = "notfound" THEN NilError ELSE GetError

\* r.client.Get(ctx, request.NamespacedName, &ds)
Get ==
    /\ pc = "get"
    /\ \E outcome \in {"found", "notfound", "error"} :
          /\ calls' = Append(calls, [op |-> "get", out |-> outcome])
          /\ IF outcome = "found"
             THEN Proceed("get")
             ELSE Return(GetFailure(outcome))
    /\ UNCHANGED <<watch, local, usedBy, stale, cancelled, channel, history,
                   snapshot>>

\* One GetContent call of the validation, for the material m read at
\* position at.
GetContent(at, m) ==
    /\ pc = at
    /\ \E outcome \in {"resolved", "error"} :
          /\ calls' = Append(calls, [op |-> m, out |-> outcome])
          /\ IF outcome = "resolved"
             THEN Proceed(at)
             ELSE Return(Wrap(m))
    /\ UNCHANGED <<watch, local, usedBy, stale, cancelled, channel, history,
                   snapshot>>

GetCA == GetContent("ca", "CA")

GetClientCertificate == GetContent("cert", "ClientCertificate")

GetClientKey == GetContent("key", "ClientKey")

\* r.client.List(ctx, &tcpList)
List ==
    /\ pc = "list"
    /\ \/ \E l \in ListResults :
             /\ items' = l
             /\ calls' = Append(calls, [op |-> "list", out |-> "listed"])
             /\ Proceed("list")
       \/ /\ calls' = Append(calls, [op |-> "list", out |-> "error"])
          /\ Return(ListError)
          /\ UNCHANGED items
    /\ UNCHANGED <<watch, req, idx, usedBy, stale, cancelled, channel,
                   history, snapshot>>

\* A plausible slip: the new identities appended to the ones the object
\* already carries.
NewUsedByAppended(old, list) == old \o ComputeUsedBy(list)

\* ds.Status.UsedBy = tcpSets.List(): the status of the object read by Get
\* is replaced.
NewUsedBy(old, list) == ComputeUsedBy(list)

\* A plausible slip: a write that does not carry the version read (a
\* patch), which the store accepts whatever happened in between.
WriteAllowedUnchecked(modified) == TRUE

\* The store's optimistic check of Update: the write of an object modified
\* since it was read is refused.
WriteAllowed(modified) == ~modified

\* A plausible slip: the write is skipped when nothing would change.
WriteSuppressedWhenEqual(old, new) == old = new

\* Nothing decides whether to write: Update follows the assignment
\* unconditionally.
WriteSuppressed(old, new) == FALSE

\* r.client.Status().Update(ctx, &ds): the store refuses the write of an
\* object modified since it was read, and the call may fail otherwise.
StatusUpdate ==
    /\ pc = "update"
    /\ IF WriteSuppressed(usedBy, NewUsedBy(usedBy, items))
       THEN /\ Proceed("update")
            /\ UNCHANGED <<usedBy, calls, snapshot>>
       ELSE \/ /\ WriteAllowed(stale)
               /\ usedBy' = NewUsedBy(usedBy, items)
               /\ snapshot' = [taken |-> TRUE,
                               tcps |-> {items[i] : i \in 1..Len(items)}]
               /\ calls' = Append(calls, [op |-> "update", out |-> "updated"])
               /\ Proceed("update")
            \/ /\ ~WriteAllowed(stale)
               /\ calls' = Append(calls, [op |-> "update", out |-> "conflict"])
               /\ Return(ConflictError)
               /\ UNCHANGED <<usedBy, snapshot>>
            \/ /\ calls' = Append(calls, [op |-> "update", out |-> "error"])
               /\ Return(UpdateError)
               /\ UNCHANGED <<usedBy, snapshot>>
    /\ UNCHANGED <<watch, local, stale, cancelled, channel, history>>

\* A plausible slip: one event per entry of the index, in the order of the
\* index.
NotifyItemsOfIndex(list) ==
    LET index == ComputeUsedBy(list)
    IN  [i \in 1..Len(index) |->
            CHOOSE tcp \in {list[j] : j \in 1..Len(list)} :
                NamespacedNameString(tcp.ns, tcp.name) = index[i]]

\* for _, i := range tcpList.Items: the loop ranges over the list result.
NotifyItems(list) == list

\* A plausible slip: the event points at the loop variable itself, which
\* ends up holding the last item.
EventOfAliased(list, i) == list[Len(list)]

\* tcp := i; event.GenericEvent{Object: &tcp}: the event of the i-th item.
EventOf(list, i) == list[i]

\* The event of the notify loop the worker is sending.
Pending == EventOf(NotifyItems(items), idx + 1)

\* r.TenantControlPlaneTrigger <- event.GenericEvent{Object: &tcp}: the
\* worker enters the send and hands its event to the channel.
Send ==
    /\ pc = "notify"
    /\ idx < Len(NotifyItems(items))
    /\ chanBuf' = Append(chanBuf, Pending)
    /\ pc' = "sending"
    /\ UNCHANGED <<watch, local, ret, usedBy, stale, cancelled, received,
                   sent, calls, history, snapshot>>

\* The send statement completes, and the loop goes on, once the event is
\* not beyond the channel's capacity: for an unbuffered channel, once the
\* consumer has taken it.  The context is not looked at.
SendDone ==
    /\ pc = "sending"
    /\ ~ChanFull(chanBuf)
    /\ sent' = Append(sent, Pending)
    /\ idx' = idx + 1
    /\ pc' = "notify"
    /\ UNCHANGED <<watch, req, items, ret, usedBy, stale, cancelled, chanBuf,
                   received, calls, history, snapshot>>

\* The loop over tcpList.Items is over.
Finish ==
    /\ pc = "notify"
    /\ idx = Len(NotifyItems(items))
    /\ Proceed("notify")
    /\ UNCHANGED <<watch, local, usedBy, stale, cancelled, channel, calls,
                   history, snapshot>>

\* The consumer (TriggerChan of the TenantControlPlane reconciler) receives
\* the oldest event of the channel.
Receive ==
    /\ chanBuf # <<>>
    /\ received' = Append(received, Head(chanBuf))
    /\ chanBuf' = Tail(chanBuf)
    /\ UNCHANGED <<watch, pc, local, ret, usedBy, stale, cancelled, sent,
                   calls, history, snapshot>>

Worker ==
    \/ Start
    \/ Get
    \/ GetCA
    \/ GetClientCertificate
    \/ GetClientKey
    \/ List
    \/ StatusUpdate
    \/ Send
    \/ SendDone
    \/ Finish

Next ==
    \/ WatchEvent
    \/ Modify
    \/ Cancel
    \/ Worker
    \/ Receive

Spec == Init /\ [][Next]_vars

\* The worker runs whenever it can; nothing obliges the consumer to receive.
FairSpec == Spec /\ WF_vars(Worker)

\* The worker runs whenever it can and the consumer keeps receiving.
FairConsumerSpec == Spec /\ WF_vars(Worker) /\ WF_vars(Receive)

(***************************************************************************)
(* Vocabulary of the properties.                                           *)
(***************************************************************************)
Returned == pc = "idle" /\ ret # NotReturned

\* The call went through get, validation, list and status update, and
\* returned nil after the notify loop.
Succeeded == Returned /\ ret.err = NilError /\ Called("update")

Identity(tcp) == NamespacedNameString(tcp.ns, tcp.name)

Identities(events) == [i \in 1..Len(events) |-> Identity(events[i])]

Range(seq) == {seq[i] : i \in 1..Len(seq)}

\* The material whose resolution failed in this call, if one did.
FailedMaterials == {m \in Materials : Called(m) /\ Outcome(m) = "error"}

(***************************************************************************)
(* C1..C10                                                                 *)
(***************************************************************************)
\* C1: when the descriptor exists, the three materials resolve and the list
\* and the status update succeed, Reconcile returns nil and the persisted
\* status.usedBy is strictly increasing in the byte order of strings (so
\* without duplicates) and holds exactly the "namespace/name" identities of
\* the listed dependents, whatever the order and the repetitions of the
\* list.
C1_UsedByIsOrderedIndex ==
    (Returned /\ Called("update") /\ Outcome("update") = "updated") =>
        /\ ret.err = NilError
        /\ \A i, j \in 1..Len(usedBy) : i < j => StrLess(usedBy[i], usedBy[j])
        /\ Range(usedBy) = Range(Identities(items))

\* A successful call whose list named a dependent twice and was not in
\* string order.
C1_Witness ==
    /\ Succeeded
    /\ Len(items) = 3
    /\ Len(usedBy) = 2
    /\ Identity(items[1]) # usedBy[1]

\* C2: when one material fails to resolve, the error Reconcile returns
\* identifies that material: its tag is the tag of no other material.
C2_ErrorIdentifiesMaterial ==
    \A m \in FailedMaterials :
        Returned =>
            /\ ret.err.kind = "wrapped"
            /\ ret.err.msg = WrapMessage(m)
            /\ \A o \in Materials \ {m} : ret.err.msg # WrapMessage(o)

\* C3: a call that returns an error leaves the persisted status.usedBy as
\* it was when the call started, and has handed no event to the channel.
C3_FailureWritesAndSendsNothing ==
    (Returned /\ ret.err # NilError) =>
        /\ usedBy = usedByAtStart
        /\ sent = <<>>
        /\ received = <<>>
        /\ chanBuf = <<>>

\* A call failed on its status update although the store held another
\* index than the one the call had computed.
C3_Witness ==
    /\ Returned
    /\ ret.err \in {ConflictError, UpdateError}
    /\ items # <<>>
    /\ usedBy # ComputeUsedBy(items)

\* C4: when Get returns not-found, Reconcile returns nil and an empty
\* result (no requeue), having made no other client call (no GetContent, no
\* List, no status update), written nothing and sent nothing.
C4_NotFoundIsNoOp ==
    (Returned /\ Outcome("get") = "notfound") =>
        /\ ret = [result |-> [requeue |-> FALSE], err |-> NilError]
        /\ Len(calls) = 1
        /\ usedBy = usedByAtStart
        /\ sent = <<>>
        /\ received = <<>>
        /\ chanBuf = <<>>

\* Not-found for an object whose status held an index.
C4_Witness ==
    /\ Returned
    /\ Outcome("get") = "notfound"
    /\ usedByAtStart # <<>>

\* C5: a successful call that follows a successful call, with the list
\* returning the same result, persists the same status.usedBy and sends the
\* same events in the same order.
C5_Idempotent ==
    (Succeeded /\ prev.ok /\ prev.items = items) =>
        /\ usedBy = prev.usedBy
        /\ sent = prev.sent

\* Two such calls in a row, over a list with two different dependents.
C5_Witness ==
    /\ Succeeded
    /\ prev.ok
    /\ prev.items = items
    /\ Len(usedBy) = 2

\* C6: only events of the DataStore named ResourceName lead to a request
\* and to a call of Reconcile; events of other names are dropped.
C6_OnlyResourceNameReconciled ==
    /\ \A name \in queue : name = ResourceName
    /\ (pc # "idle" \/ Returned) => req = ResourceName

\* Reconcile runs after an event of another DataStore was dropped.
C6_Witness ==
    /\ dropped
    /\ pc = "get"
    /\ req = ResourceName

\* C7: while the worker is blocked on a send whose event the consumer has
\* not received, no step but the consumer's receive changes that: the call
\* neither goes on with the loop nor returns.
C7_BlockedUntilReceive ==
    [][(pc = "sending" /\ Len(received) = Len(sent))
          => (received' # received
                \/ (pc' = "sending" /\ idx' = idx /\ ret' = ret
                      /\ sent' = sent))]_vars

\* The worker is blocked on its first send: nothing was received.
C7_Witness ==
    /\ pc = "sending"
    /\ items # <<>>
    /\ received = <<>>
    /\ sent = <<>>

\* C8 as stated: the events of a successful call are one per identity of
\* status.usedBy, in the order of status.usedBy.
C8_EventsFollowIndex == Succeeded => Identities(sent) = usedBy

\* C8 as amended: the events of a successful call are one per item of the
\* list result, repetitions included, in the order of the list; the
\* identities they carry are exactly those of status.usedBy.
C8_EventsFollowList ==
    Succeeded =>
        /\ sent = items
        /\ Range(Identities(sent)) = Range(usedBy)

\* A successful call whose events differ from the index in number and in
\* order.
C8_Witness ==
    /\ Succeeded
    /\ Len(sent) = 3
    /\ Len(usedBy) = 2
    /\ Identities(sent) # usedBy \o <<usedBy[1]>>
    /\ Identities(sent) # usedBy \o <<usedBy[2]>>

\* C9: no event is lost or duplicated between the worker and the consumer:
\* what the consumer received and what the channel still holds is exactly
\* what the worker has handed over, in order, the channel holds nothing
\* but the event of a blocked sender, and a call returns nil only when the
\* consumer has received every event of the list.
C9_ExactlyOnceDelivery ==
    /\ received \o chanBuf =
          [i \in 1..(idx + (IF pc = "sending" THEN 1 ELSE 0)) |-> items[i]]
    /\ pc # "sending" => chanBuf = <<>> /\ received = sent
    /\ Succeeded => received = items

\* A successful call all of whose events, one of them twice, were received.
C9_Witness ==
    /\ Succeeded
    /\ Len(received) = 3
    /\ received[1] = received[3]
    /\ received[1] # received[2]

\* C10: once the context is cancelled while the worker is blocked on a
\* send, the call eventually returns, also when the consumer does not
\* receive.
C10_CancelUnblocksSend == (pc = "sending" /\ cancelled) ~> (pc = "idle")

(***************************************************************************)
(* C11..C20                                                                *)
(***************************************************************************)
\* How many times the running/last call made a client call.
Count(op) == Cardinality({i \in 1..Len(calls) : calls[i].op = op})

\* The GetContent calls of the running/last call, in order.
MaterialCalls == SelectSeq(calls, LAMBDA c : c.op \in Materials)

\* C11: in every state the persisted status.usedBy is its initial value, as
\* long as no status write has succeeded, and otherwise the complete index
\* of the list result of the last call whose status write succeeded:
\* strictly increasing, and with the identity of every object of that list
\* result and of no other.
C11_StatusIsInitialOrCompleteIndex ==
    IF snapshot.taken
    THEN /\ \A i, j \in 1..Len(usedBy) :
                i < j => StrLess(usedBy[i], usedBy[j])
         /\ Range(usedBy) = {Identity(tcp) : tcp \in snapshot.tcps}
    ELSE usedBy = <<>>

\* A later call, over a shorter list, failed: the index of the two
\* dependents of an earlier call is still the one persisted.
C11_Witness ==
    /\ Returned
    /\ ret.err # NilError
    /\ Len(items) = 1
    /\ Len(usedBy) = 2
    /\ Cardinality(snapshot.tcps) = 2

\* C12: Reconcile returns nil exactly when Get answered not-found or when
\* Get, the three resolutions, List and the status update all succeeded;
\* every failure of another kind comes back as a non-nil error.
C12_NilOnlyOnNotFoundOrSuccess ==
    Returned =>
        /\ ret.err = NilError <=>
              \/ Outcome("get") = "notfound"
              \/ [i \in 1..Len(calls) |-> calls[i].out] =
                    <<"found", "resolved", "resolved", "resolved", "listed",
                      "updated">>
        /\ \A i \in 1..Len(calls) :
              calls[i].out \in {"error", "conflict"} => ret.err # NilError

\* A call returned the error of List.
C12_Witness ==
    /\ Returned
    /\ Called("list")
    /\ Outcome("list") = "error"
    /\ ret.err = ListError

\* C13: the materials are resolved in the order CA certificate, client
\* certificate, client key, each at most once, and a resolution that fails
\* is the last client call of the cycle.
C13_ResolutionOrder ==
    /\ \E n \in 0..3 :
          [i \in 1..Len(MaterialCalls) |-> MaterialCalls[i].op] =
              SubSeq(<<"CA", "ClientCertificate", "ClientKey">>, 1, n)
    /\ \A i \in 1..Len(calls) :
          (calls[i].op \in Materials /\ calls[i].out = "error")
              => i = Len(calls)

\* The client certificate failed to resolve after the CA had resolved: the
\* client key was not asked for.
C13_Witness ==
    /\ Returned
    /\ Called("ClientCertificate")
    /\ Outcome("ClientCertificate") = "error"
    /\ Len(calls) = 3

\* C14: with a consumer that keeps receiving, every call of Reconcile
\* eventually returns, and a call whose status update succeeded returns
\* nil: the notify loop produces no failure.
C14_EveryCallReturns ==
    /\ [](Returned /\ Called("update") /\ Outcome("update") = "updated"
             => ret.err = NilError)
    /\ (pc # "idle") ~> (pc = "idle")

\* A call returned nil after the consumer had received several events.
C14_Witness ==
    /\ Succeeded
    /\ Len(received) >= 2
    /\ received = sent

\* C15: when the DataStore was modified between the call's Get and its
\* status update, the update does not succeed (the store answers with a
\* conflict), Reconcile returns that error after a single Get and a single
\* update, the persisted status is as it was and nothing is sent; a call
\* that got past its status update was not overtaken by another writer.
C15_ConflictIsReturned ==
    /\ (Returned /\ stale /\ Called("update")) =>
          /\ Outcome("update") \in {"conflict", "error"}
          /\ Outcome("update") = "conflict" => ret.err = ConflictError
          /\ ret.err # NilError
          /\ Count("get") = 1
          /\ Count("update") = 1
          /\ usedBy = usedByAtStart
          /\ sent = <<>>
          /\ received = <<>>
          /\ chanBuf = <<>>
    /\ (pc \in {"notify", "sending"} \/ Succeeded) => ~stale

\* A call returned the conflict, its list of dependents unwritten.
C15_Witness ==
    /\ Returned
    /\ stale
    /\ ret.err = ConflictError
    /\ items # <<>>
    /\ usedBy = <<>>

\* C16: a call whose List succeeded goes on to the status update, also
\* when the index it computed is the one already stored: past the update
\* position the update has been called.
C16_WriteIsUnconditional ==
    (Called("list") /\ Outcome("list") = "listed" /\ pc # "update")
        => Called("update")

\* The status update succeeded with the index that was stored already.
C16_Witness ==
    /\ Called("update")
    /\ Outcome("update") = "updated"
    /\ usedBy = usedByAtStart
    /\ usedBy # <<>>

\* C17: within one call Get, List and the status update are each called at
\* most once, and whatever the outcome the result returned asks for no
\* requeue.
C17_NoInternalRetry ==
    /\ \A op \in {"get", "list", "update"} : Count(op) <= 1
    /\ Returned => ret.result = [requeue |-> FALSE]

\* A call returned the failure of its one status update.
C17_Witness ==
    /\ Returned
    /\ ret.err = UpdateError
    /\ Count("update") = 1
    /\ Count("get") = 1

\* C18: in a successful call every identity written to status.usedBy is
\* carried by an event sent, and every event sent carries an identity
\* written to status.usedBy.
C18_NotifiedEqualsIndexed ==
    Succeeded =>
        /\ \A i \in 1..Len(usedBy) :
              \E j \in 1..Len(sent) : Identity(sent[j]) = usedBy[i]
        /\ \A j \in 1..Len(sent) :
              \E i \in 1..Len(usedBy) : usedBy[i] = Identity(sent[j])

\* A successful call over two different dependents.
C18_Witness ==
    /\ Succeeded
    /\ Len(usedBy) = 2
    /\ Len(sent) = 2

\* C19: in a successful call as many events are sent as the list result
\* has items, the i-th event being the i-th item; for a list whose first
\* and third items are one dependent and whose second is another, three
\* events are sent while status.usedBy has two entries.
C19_EventsFollowRawList ==
    Succeeded =>
        /\ Len(sent) = Len(items)
        /\ \A i \in 1..Len(items) : sent[i] = items[i]
        /\ (Len(items) = 3 /\ items[1] = items[3] /\ items[1] # items[2])
              => Len(sent) = 3 /\ Len(usedBy) = 2

\* The list a/b, a-b/a, a/b: three events, the first for a/b, and an index
\* of two entries that starts with a-b/a.
C19_Witness ==
    /\ Succeeded
    /\ Len(items) = 3
    /\ items[1] = items[3]
    /\ items[1] # items[2]
    /\ Len(sent) = 3
    /\ Len(usedBy) = 2
    /\ Identity(sent[1]) = usedBy[2]

\* C20: whenever an event of a call is in the channel or with the
\* consumer, or the worker is in a send, the status update of that call has
\* succeeded and the persisted index is the one of the call's list result.
C20_WritePrecedesNotifications ==
    (received # <<>> \/ chanBuf # <<>> \/ sent # <<>> \/ pc = "sending") =>
        /\ Called("update")
        /\ Outcome("update") = "updated"
        /\ Range(usedBy) = Range(Identities(items))

\* The new index is persisted and an event was received while Reconcile,
\* blocked in a send, has not returned.
C20_Witness ==
    /\ pc = "sending"
    /\ ret = NotReturned
    /\ received # <<>>
    /\ usedBy # usedByAtStart

====
